---- MODULE Spec2Model ----
(***************************************************************************)
(* One pass of the SB8200 exporter's /metrics handler (sb8200_exporter.py):*)
(* login, the mandatory status fetch, the two downstream and the two       *)
(* upstream getter.xml fetches, and the per-pass Prometheus registry the   *)
(* channel loops write their gauges to.                                    *)
(*                                                                         *)
(* Texts are tuples of one-character strings (<<"1", ".", "5">> is "1.5"); *)
(* None, what findtext returns for a missing element, is the tuple         *)
(* <<"None">>, which no text equals.  Numbers are kept in tenths, so the   *)
(* float 1.5 is 15 and the float 123456.0 is 1234560; no text of the       *)
(* vocabulary has more than one fractional digit.                          *)
(***************************************************************************)
EXTENDS Integers, Sequences, FiniteSets, TLC

VARIABLES pc, idx, loginResp, cookie, fetched, statusFetch, status, outcome,
          elems, pending, names, samples, cur, added, contrib, result, vary

vars == <<pc, idx, loginResp, cookie, fetched, statusFetch, status, outcome,
          elems, pending, names, samples, cur, added, contrib, result, vary>>

\* Most channel elements one getter.xml payload holds.
MaxChannels == 2

-----------------------------------------------------------------------------
(* Python values and string operations *)

None == <<"None">>

\* Python truthiness of a findtext result: None and "" are falsy.
Truthy(x) == x # None /\ x # <<>>

\* Python `a or b`.
Or(a, b) == IF Truthy(a) THEN a ELSE b

Digits == {"0", "1", "2", "3", "4", "5", "6", "7", "8", "9"}

DigitVal(c) ==
  CASE c = "0" -> 0 [] c = "1" -> 1 [] c = "2" -> 2 [] c = "3" -> 3
    [] c = "4" -> 4 [] c = "5" -> 5 [] c = "6" -> 6 [] c = "7" -> 7
    [] c = "8" -> 8 [] c = "9" -> 9

RECURSIVE LStrip(_)
LStrip(s) == IF s # <<>> /\ Head(s) = " " THEN LStrip(Tail(s)) ELSE s

RECURSIVE RStrip(_)
RStrip(s) ==
  IF s # <<>> /\ s[Len(s)] = " " THEN RStrip(SubSeq(s, 1, Len(s) - 1)) ELSE s

\* str.strip() of whitespace, which int() and float() apply first.
Strip(s) == RStrip(LStrip(s))

AllDigits(s) == \A k \in 1..Len(s) : s[k] \in Digits

RECURSIVE DigitsVal(_)
DigitsVal(s) ==
  IF s = <<>> THEN 0 ELSE 10 * DigitsVal(SubSeq(s, 1, Len(s) - 1)) + DigitVal(s[Len(s)])

HasSign(s) == s # <<>> /\ Head(s) \in {"-", "+"}
Unsigned(s) == IF HasSign(s) THEN Tail(s) ELSE s
Sign(s) == IF s # <<>> /\ Head(s) = "-" THEN -1 ELSE 1

\* The position of the first "." of s, 0 when it has none.
DotAt(s) ==
  IF \E k \in 1..Len(s) : s[k] = "."
    THEN CHOOSE k \in 1..Len(s) : s[k] = "." /\ \A j \in 1..(k - 1) : s[j] # "."
    ELSE 0

\* int(s) of a text: optional sign, then one or more decimal digits.
IsInt(s) ==
  LET u == Unsigned(Strip(s)) IN u # <<>> /\ AllDigits(u)

IntVal(s) ==
  LET t == Strip(s) IN Sign(t) * DigitsVal(Unsigned(t)) * 10

\* float(s) of a text: optional sign, digits with at most one ".", and at least
\* one digit.  The texts of the vocabulary hold no exponent, underscore, inf
\* or nan.
IsFloat(s) ==
  LET u == Unsigned(Strip(s))
      d == DotAt(u)
      ip == IF d = 0 THEN u ELSE SubSeq(u, 1, d - 1)
      fp == IF d = 0 THEN <<>> ELSE SubSeq(u, d + 1, Len(u))
  IN  AllDigits(ip) /\ AllDigits(fp) /\ Len(ip) + Len(fp) > 0

FloatVal(s) ==
  LET t == Strip(s)
      u == Unsigned(t)
      d == DotAt(u)
      ip == IF d = 0 THEN u ELSE SubSeq(u, 1, d - 1)
      fp == IF d = 0 THEN <<>> ELSE SubSeq(u, d + 1, Len(u))
      tenth == IF fp = <<>> THEN 0 ELSE DigitVal(fp[1])
  IN  Sign(t) * (10 * DigitsVal(ip) + tenth)

\* str.split(): the whitespace-delimited tokens; this is its first token, and
\* <<>> stands for the empty list (indexing it raises IndexError).
RECURSIVE TakeToken(_)
TakeToken(s) ==
  IF s = <<>> \/ Head(s) = " " THEN <<>> ELSE <<Head(s)>> \o TakeToken(Tail(s))

HasToken(s) == LStrip(s) # <<>>
FirstToken(s) == TakeToken(LStrip(s))

LowerChar(c) ==
  CASE c = "L" -> "l" [] c = "O" -> "o" [] c = "C" -> "c" [] c = "K" -> "k"
    [] c = "E" -> "e" [] c = "D" -> "d" [] c = "Y" -> "y" [] c = "S" -> "s"
    [] c = "N" -> "n" [] OTHER -> c

\* str.lower().
Lower(s) == [k \in 1..Len(s) |-> LowerChar(s[k])]

\* Python `sub in s` on strings.
Contains(s, sub) ==
  \E k \in 0..(Len(s) - Len(sub)) : SubSeq(s, k + 1, k + Len(sub)) = sub

-----------------------------------------------------------------------------
(* The modem's answers: the texts and channel elements a payload may hold *)

Unknown == <<"u", "n", "k", "n", "o", "w", "n">>
Locked == <<"L", "o", "c", "k", "e", "d">>
Yes == <<"y", "e", "s">>
No == <<"n", "o">>
Bad == <<"x">>

\* The truthy vocabulary of the lock test.
LockWords == {<<"1">>, <<"y", "e", "s">>, <<"l", "o", "c", "k", "e", "d">>}

DsFuns == <<9, 10>>
UsFuns == <<6, 11>>

\* Each logical downstream field: the key of the yielded dict, the legacy
\* element name, the modern element name, in the order of parse_downstream.
DsFields ==
  << <<"chid", "chid", "dsid">>,
     <<"locked", "IsLocked", "ofdmIsLocked">>,
     <<"modulation", "mod", "ofdmModulation">>,
     <<"frequency", "freq", "plcFrequency">>,
     <<"power", "pow", "PLCPower">>,
     <<"snr", "snr", "PlcScAvgMer">>,
     <<"corrected", "correctable", "ofdmCorrected">>,
     <<"uncorrectables", "uncorrectable", "ofdmUncorrectable">> >>

UsFields ==
  << <<"locked", "usLocked", "ofdmaLocked">>,
     <<"frequency", "freq", "centerFreq">>,
     <<"bandwidth", "bandwidth", "width">>,
     <<"power", "power", "repPower1_6">> >>

\* A DOCSIS 3.0 downstream channel element: every legacy name, no modern one.
LegacyDs ==
  [chid |-> <<"3">>, dsid |-> None,
   IsLocked |-> Locked, ofdmIsLocked |-> None,
   mod |-> <<"Q", "A", "M">>, ofdmModulation |-> None,
   freq |-> <<"5">>, plcFrequency |-> None,
   pow |-> <<"1", ".", "5">>, PLCPower |-> None,
   snr |-> <<"4", "0", ".", "1">>, PlcScAvgMer |-> None,
   correctable |-> <<"7">>, ofdmCorrected |-> None,
   uncorrectable |-> <<"2">>, ofdmUncorrectable |-> None]

\* The value a modern element carries when it differs from the legacy one.
ModernDsText ==
  [dsid |-> <<"9">>, ofdmIsLocked |-> Yes, ofdmModulation |-> <<"O", "F", "D", "M">>,
   plcFrequency |-> <<"6">>, PLCPower |-> <<"-", "2", ".", "5">>, PlcScAvgMer |-> <<"3", "8">>,
   ofdmCorrected |-> <<"8">>, ofdmUncorrectable |-> <<"4">>]

LegacyUs ==
  [usid |-> <<"1">>,
   usLocked |-> Locked, ofdmaLocked |-> None,
   freq |-> <<"3", "0">>, centerFreq |-> None,
   bandwidth |-> <<"6">>, width |-> None,
   power |-> <<"4", "5", ".", "5">>, repPower1_6 |-> None]

ModernUsText ==
  [ofdmaLocked |-> Yes, centerFreq |-> <<"3", "1">>, width |-> <<"5">>, repPower1_6 |-> <<"4", "4">>]

\* The same channel written with the other schema's element names: each
\* logical field's legacy text moves to the modern name.
RECURSIVE Rename(_, _, _)
Rename(e, fields, k) ==
  IF k > Len(fields) THEN e
  ELSE Rename([e EXCEPT ![fields[k][3]] = e[fields[k][2]], ![fields[k][2]] = None],
              fields, k + 1)

ToModernDs(e) == Rename(e, DsFields, 1)
ToModernUs(e) == Rename(e, UsFields, 1)

\* What an element of a logical field may hold besides its usual text: nothing
\* (None), the empty text, and a text that is no number.  The counters also
\* get "1.5", a float that is no int; the lock gets "no".
Odd(key) ==
  CASE key \in {"corrected", "uncorrectables"} -> {None, <<>>, Bad, <<"1", ".", "5">>}
    [] key \in {"power", "snr", "frequency"} -> {None, <<>>, Bad}
    [] key = "locked" -> {None, <<>>, No}
    [] OTHER -> {None, <<>>}

\* The (legacy text, modern text) pairs of a logical field: every legacy text
\* with the modern element missing and with it holding its usual text, and
\* every modern text with the legacy element missing.
Pairs(key, legacy, modern) ==
  {<<l, m>> : l \in Odd(key) \cup {legacy}, m \in {None, modern}}
    \cup {<<None, m>> : m \in Odd(key)}

\* The legacy element with one logical field varied over its pairs.
Variants(base, modern, fields) ==
  UNION {{[base EXCEPT ![fields[k][2]] = p[1], ![fields[k][3]] = p[2]] :
            p \in Pairs(fields[k][1], base[fields[k][2]], modern[fields[k][3]])} :
         k \in 1..Len(fields)}

\* The <downstream> elements a payload is drawn from: the variants of the
\* legacy element, and the same channel under the modern names.
DsElems == Variants(LegacyDs, ModernDsText, DsFields) \cup {ToModernDs(LegacyDs)}

\* The <upstream> elements a payload is drawn from; usid has no second name.
UsElems ==
  Variants(LegacyUs, ModernUsText, UsFields)
    \cup {[LegacyUs EXCEPT !.usid = t] : t \in {None, <<>>}}
    \cup {ToModernUs(LegacyUs)}

\* The cm_system_uptime and cm_docsis_mode texts of a status document.
UptimeSeconds ==
  <<"1", "2", "3", "4", "5", "6", " ", "s", "e", "c", "o", "n", "d", "s">>

Mode31 == <<"3", ".", "1">>

UptimeTexts ==
  {None, <<>>, <<" ">>, UptimeSeconds, <<"g", "a", "r", "b", "a", "g", "e">>, <<"7", ".", "5">>, <<" ", "7">>}

ModeTexts == {None, Mode31, <<"3", ".", "0">>}

Codes == {200, 401, 500}

\* The documents getter.xml may answer with: malformed XML (ok is FALSE), a
\* status document with its two texts, a channel document with n elements.
StatusDocs ==
  {[ok |-> FALSE, uptime |-> None, mode |-> None]}
    \cup [ok : {TRUE}, uptime : UptimeTexts, mode : ModeTexts]

ChannelDocs == {[ok |-> FALSE, n |-> 0]} \cup [ok : {TRUE}, n : 0..MaxChannels]

\* What a POST may come to: a transport error, or a response with a code.
Posts == {[err |-> TRUE, code |-> 0]} \cup {[err |-> FALSE, code |-> c] : c \in Codes}

-----------------------------------------------------------------------------
(* fetch_xml, parse_status, parse_downstream, parse_upstream *)

\* A login that trusts the response code instead of the cookie.
login_by_code(post, token) == ~post.err /\ post.code = 200

\* login(session): True when the POST went through and the session holds the
\* sessionToken cookie afterwards, whatever the code of the response; else
\* it raises.
login(post, token) == ~post.err /\ token

\* Response.raise_for_status(): HTTPError for a 4xx or 5xx code.
RaiseForStatus(code) == code >= 400 /\ code < 600

\* A fetch_xml without its raise_for_status() call.
FetchRaisesTransportOnly(post) == post.err

\* fetch_xml raises on a transport error and on an error status.
FetchRaises(post) == post.err \/ RaiseForStatus(post.code)

\* Element.findtext(tag): the text of the child, "" for a child without text,
\* None for no such child.
FindText(e, tag) == e[tag]

\* root.findtext(".//tag", default=""): "" when the document has no such tag.
FindTextDefault(t) == IF t = None THEN <<>> ELSE t

parse_status(doc) ==
  [cm_system_uptime |-> FindTextDefault(doc.uptime),
   cm_docsis_mode |-> FindTextDefault(doc.mode)]

\* A parse_downstream whose power forgets the modern element name.
parse_downstream_pow_only(ds) ==
  [chid |-> Or(FindText(ds, "chid"), FindText(ds, "dsid")),
   locked |-> Or(FindText(ds, "IsLocked"), FindText(ds, "ofdmIsLocked")),
   modulation |-> Or(FindText(ds, "mod"), FindText(ds, "ofdmModulation")),
   frequency |-> Or(FindText(ds, "freq"), FindText(ds, "plcFrequency")),
   power |-> FindText(ds, "pow"),
   snr |-> Or(FindText(ds, "snr"), FindText(ds, "PlcScAvgMer")),
   corrected |-> Or(Or(FindText(ds, "correctable"), FindText(ds, "ofdmCorrected")), <<"0">>),
   uncorrectables |->
     Or(Or(FindText(ds, "uncorrectable"), FindText(ds, "ofdmUncorrectable")), <<"0">>)]

\* The dict parse_downstream yields for one <downstream> element.
parse_downstream(ds) ==
  [chid |-> Or(FindText(ds, "chid"), FindText(ds, "dsid")),
   locked |-> Or(FindText(ds, "IsLocked"), FindText(ds, "ofdmIsLocked")),
   modulation |-> Or(FindText(ds, "mod"), FindText(ds, "ofdmModulation")),
   frequency |-> Or(FindText(ds, "freq"), FindText(ds, "plcFrequency")),
   power |-> Or(FindText(ds, "pow"), FindText(ds, "PLCPower")),
   snr |-> Or(FindText(ds, "snr"), FindText(ds, "PlcScAvgMer")),
   corrected |-> Or(Or(FindText(ds, "correctable"), FindText(ds, "ofdmCorrected")), <<"0">>),
   uncorrectables |->
     Or(Or(FindText(ds, "uncorrectable"), FindText(ds, "ofdmUncorrectable")), <<"0">>)]

\* The dict parse_upstream yields for one <upstream> element.
parse_upstream(us) ==
  [usid |-> FindText(us, "usid"),
   locked |-> Or(FindText(us, "usLocked"), FindText(us, "ofdmaLocked")),
   type |-> IF FindText(us, "ofdmaLocked") # None THEN <<"O", "F", "D", "M", "A">> ELSE <<"S", "C", "-", "Q", "A", "M">>,
   frequency |-> Or(FindText(us, "freq"), FindText(us, "centerFreq")),
   bandwidth |-> Or(FindText(us, "bandwidth"), FindText(us, "width")),
   power |-> Or(FindText(us, "power"), FindText(us, "repPower1_6"))]

-----------------------------------------------------------------------------
(* The per-pass CollectorRegistry and the gauges of the channel loops *)

EmptyRegistry == [names |-> {}, samples |-> {}]

\* CollectorRegistry.register raises ValueError for a name it already holds.
Duplicated(reg, name) == name \in reg.names

\* Gauge(name, ..., registry=registry).labels(**labels).set(value) on a name the
\* registry does not hold yet.
SetGauge(reg, name, labels, value) ==
  [names |-> reg.names \cup {name},
   samples |-> reg.samples \cup {[name |-> name, labels |-> labels, value |-> value]}]

\* float(x or 0): 0.0 for None and "", else the float of the text, if it is one.
FloatOrZero(x) ==
  IF ~Truthy(x) THEN [ok |-> TRUE, value |-> 0]
  ELSE IF IsFloat(x) THEN [ok |-> TRUE, value |-> FloatVal(x)]
  ELSE [ok |-> FALSE, value |-> 0]

\* try: v = float(x or 0); Gauge(name, ...).labels(**labels).set(v)
\* except ValueError: pass
\* Both float() and the registration of a duplicate name raise ValueError.
FloatGauge(reg, name, labels, x) ==
  LET f == FloatOrZero(x)
  IN  IF f.ok /\ ~Duplicated(reg, name) THEN SetGauge(reg, name, labels, f.value) ELSE reg

\* try: c = int(..); u = int(..); Gauge(corrected)...; Gauge(uncorrectable)...
\* except ValueError: pass
CounterGauges(reg, labels, c, u) ==
  IF ~(IsInt(c) /\ IsInt(u)) \/ Duplicated(reg, "modem_downstream_corrected") THEN reg
  ELSE LET r == SetGauge(reg, "modem_downstream_corrected", labels, IntVal(c))
       IN  IF Duplicated(r, "modem_downstream_uncorrectable") THEN r
           ELSE SetGauge(r, "modem_downstream_uncorrectable", labels, IntVal(u))

\* 1.0 if locked_val.lower() in ["1", "yes", "locked"] else 0.0
LockValue(x) == IF Lower(IF Truthy(x) THEN x ELSE <<>>) \in LockWords THEN 10 ELSE 0

\* A lock gauge on a registry that takes a name twice.
LockGaugeUnchecked(reg, name, labels, x) ==
  [reg |-> SetGauge(reg, name, labels, LockValue(x)), raised |-> FALSE]

\* The lock gauge stands outside the inner try blocks: the ValueError of a
\* duplicate name leaves the loop body (raised), to the functionId's except.
LockGauge(reg, name, labels, x) ==
  IF Duplicated(reg, name) THEN [reg |-> reg, raised |-> TRUE]
  ELSE [reg |-> SetGauge(reg, name, labels, LockValue(x)), raised |-> FALSE]

DsLabels(ds) ==
  [channel |-> IF Truthy(ds.chid) THEN ds.chid ELSE Unknown,
   modulation |-> IF Truthy(ds.modulation) THEN ds.modulation ELSE Unknown]

UsLabels(us) ==
  [channel |-> IF Truthy(us.usid) THEN us.usid ELSE Unknown,
   type |-> IF Truthy(us.type) THEN us.type ELSE Unknown]

\* One turn of the downstream loop body on the yielded dict ds.
DsBody(reg, ds) ==
  LET labels == DsLabels(ds)
      r1 == FloatGauge(reg, "modem_downstream_power_dbmv", labels, ds.power)
      r2 == FloatGauge(r1, "modem_downstream_snr_db", labels, ds.snr)
      r3 == CounterGauges(r2, labels, ds.corrected, ds.uncorrectables)
  IN  LockGauge(r3, "modem_downstream_locked", labels, ds.locked)

\* One turn of the upstream loop body on the yielded dict us.
UsBody(reg, us) ==
  LET labels == UsLabels(us)
      r1 == FloatGauge(reg, "modem_upstream_power_dbmv", labels, us.power)
      r2 == FloatGauge(r1, "modem_upstream_frequency_hz", labels, us.frequency)
  IN  LockGauge(r2, "modem_upstream_locked", labels, us.locked)

\* The status block's gauges; failed stands for the IndexError of split()[0]
\* on a text of whitespace only, which the block's except Exception catches.
StatusGauges(reg, st) ==
  LET up == st.cm_system_uptime
      r1 == IF Truthy(up) /\ HasToken(up) /\ IsFloat(FirstToken(up))
              THEN SetGauge(reg, "modem_system_uptime_seconds", <<>>, FloatVal(FirstToken(up)))
              ELSE reg
      mode == IF Contains(st.cm_docsis_mode, <<"3", ".", "1">>) THEN 10 ELSE 0
  IN  IF Truthy(up) /\ ~HasToken(up) THEN [reg |-> reg, failed |-> TRUE]
      ELSE [reg |-> SetGauge(r1, "modem_docsis_mode", <<>>, mode), failed |-> FALSE]

-----------------------------------------------------------------------------
(* metrics(): one pass *)

Funs == {1, 9, 10, 6, 11}

NoResp == [err |-> FALSE, code |-> 0, token |-> FALSE]
NoFetch == [err |-> FALSE, code |-> 0, ok |-> FALSE]
NoStatus == [cm_system_uptime |-> None, cm_docsis_mode |-> None]
NoCur == [fun |-> 0, el |-> <<>>]

\* The documents of this pass.  vary names the part of the modem's answers
\* that is drawn from its whole vocabulary; the other parts answer with the
\* well-formed legacy documents, so that the passes covered are the sum, not
\* the product, of the three vocabularies.
StatusDraw ==
  IF vary = "status" THEN StatusDocs
  ELSE {d \in StatusDocs : ~d.ok \/ (d.uptime = UptimeSeconds /\ d.mode = Mode31)}

DsDraw == IF vary = "downstream" THEN DsElems ELSE {LegacyDs}
UsDraw == IF vary = "upstream" THEN UsElems ELSE {LegacyUs}

\* registry = CollectorRegistry(); session = requests.Session()
Init ==
  /\ vary \in {"status", "downstream", "upstream"}
  /\ pc = "login"
  /\ idx = 1
  /\ loginResp = NoResp
  /\ cookie = FALSE
  /\ fetched = <<>>
  /\ statusFetch = NoFetch
  /\ status = NoStatus
  /\ outcome = [f \in Funs \ {1} |-> "none"]
  /\ elems = [f \in Funs \ {1} |-> 0]
  /\ pending = 0
  /\ names = {}
  /\ samples = {}
  /\ cur = NoCur
  /\ added = {}
  /\ contrib = [f \in Funs \ {1} |-> 0]
  /\ result = "none"

\* login(session): the POST to login.xml raises, or answers with some code and
\* with or without the sessionToken cookie.  loginResp keeps the answer on the
\* failing path only (resp is a local of login).
Login ==
  /\ pc = "login"
  /\ \E post \in Posts, token \in BOOLEAN :
       LET ok == login(post, token)
       IN  /\ cookie' = (~post.err /\ token)
           /\ loginResp' = IF ok THEN NoResp
                           ELSE [err |-> post.err, code |-> post.code, token |-> FALSE]
           /\ pc' = IF ok THEN "status" ELSE "done"
           /\ result' = IF ok THEN "none" ELSE "login_failed"
  /\ UNCHANGED <<idx, fetched, statusFetch, status, outcome, elems, pending,
                 names, samples, cur, added, contrib, vary>>

\* The status block: fetch_xml(session, 1), parse_status, the uptime and the
\* DOCSIS-mode gauge, and the block's except Exception.  statusFetch keeps the
\* modem's answer: transport error, code, well-formed document or not.
Status ==
  /\ pc = "status"
  /\ fetched' = Append(fetched, 1)
  /\ \E post \in Posts, doc \in StatusDraw :
       LET raised == FetchRaises(post)
           parsed == ~raised /\ doc.ok
           st == IF parsed THEN parse_status(doc) ELSE NoStatus
           g == IF parsed THEN StatusGauges([names |-> names, samples |-> samples], st)
                ELSE [reg |-> [names |-> names, samples |-> samples], failed |-> TRUE]
       IN  /\ statusFetch' = [err |-> post.err, code |-> post.code,
                               ok |-> ~post.err /\ doc.ok]
           /\ status' = st
           /\ names' = g.reg.names
           /\ samples' = g.reg.samples
           /\ pc' = IF g.failed THEN "done" ELSE "ds_fetch"
           /\ result' = IF g.failed THEN "status_failed" ELSE "none"
  /\ UNCHANGED <<idx, loginResp, cookie, outcome, elems, pending, cur, added, contrib, vary>>

\* Where a channel loop goes after a functionId: the next functionId of the
\* list, the upstream loop after the downstream one, the 200 response after
\* the upstream one.
LeaveFun(dir) ==
  /\ pending' = 0
  /\ IF idx < Len(IF dir = "ds" THEN DsFuns ELSE UsFuns)
       THEN /\ idx' = idx + 1
            /\ pc' = IF dir = "ds" THEN "ds_fetch" ELSE "us_fetch"
            /\ result' = result
       ELSE /\ idx' = 1
            /\ pc' = IF dir = "ds" THEN "us_fetch" ELSE "done"
            /\ result' = IF dir = "ds" THEN result ELSE "ok"

\* fetch_xml(session, fun) of a channel loop and the parse of its payload
\* (etree.fromstring, run when the generator starts): a failure of either is
\* the functionId's `except Exception: continue`.  The status dict and the loop
\* variable of the loop before are not read again: they are reset here.
Fetch(dir, funs) ==
  /\ pc = (IF dir = "ds" THEN "ds_fetch" ELSE "us_fetch")
  /\ fetched' = Append(fetched, funs[idx])
  /\ cur' = NoCur
  /\ added' = {}
  /\ status' = NoStatus
  /\ \E post \in Posts, doc \in ChannelDocs :
       IF FetchRaises(post) \/ ~doc.ok
         THEN /\ outcome' = [outcome EXCEPT ![funs[idx]] = "failed"]
              /\ elems' = elems
              /\ LeaveFun(dir)
         ELSE /\ outcome' = [outcome EXCEPT ![funs[idx]] = "ok"]
              /\ elems' = [elems EXCEPT ![funs[idx]] = doc.n]
              /\ IF doc.n = 0
                   THEN LeaveFun(dir)
                   ELSE /\ pending' = doc.n
                        /\ pc' = (IF dir = "ds" THEN "ds_channel" ELSE "us_channel")
                        /\ UNCHANGED <<idx, result>>
  /\ UNCHANGED <<loginResp, cookie, statusFetch, names, samples, contrib, vary>>

FetchDs == Fetch("ds", DsFuns)
FetchUs == Fetch("us", UsFuns)

\* The registry after one turn of a loop body, and what the loop does next:
\* a raise of the lock gauge ends the functionId's loop, as its last element
\* does.  cur keeps the element of the turn, added the samples it added, and
\* contrib counts the samples each functionId added.
Turn(dir, funs, e, r) ==
  /\ names' = r.reg.names
  /\ samples' = r.reg.samples
  /\ cur' = [fun |-> funs[idx], el |-> e]
  /\ added' = r.reg.samples \ samples
  /\ contrib' = [contrib EXCEPT ![funs[idx]] = @ + Cardinality(r.reg.samples \ samples)]
  /\ IF r.raised \/ pending = 1
       THEN LeaveFun(dir)
       ELSE /\ pending' = pending - 1
            /\ UNCHANGED <<pc, idx, result>>
  /\ UNCHANGED <<loginResp, cookie, fetched, statusFetch, status, outcome, elems, vary>>

\* The generator yields the next <downstream> element and the loop body runs.
DsChannel ==
  /\ pc = "ds_channel"
  /\ \E e \in DsDraw :
       Turn("ds", DsFuns, e, DsBody([names |-> names, samples |-> samples], parse_downstream(e)))

\* The generator yields the next <upstream> element and the loop body runs.
UsChannel ==
  /\ pc = "us_channel"
  /\ \E e \in UsDraw :
       Turn("us", UsFuns, e, UsBody([names |-> names, samples |-> samples], parse_upstream(e)))

Next == Login \/ Status \/ FetchDs \/ DsChannel \/ FetchUs \/ UsChannel

Spec == Init /\ [][Next]_vars

-----------------------------------------------------------------------------
(* What the claims speak of *)

\* The samples of the response: those of the registry for the 200 response,
\* none for a 500 response.
Returned == IF result = "ok" THEN samples ELSE {}

\* The modem answered the status fetch with a success code and well-formed XML.
StatusParsed == ~statusFetch.err /\ ~RaiseForStatus(statusFetch.code) /\ statusFetch.ok

\* The status fetch was answered, and not with a success code and well-formed XML.
StatusFetchFailed ==
  \/ statusFetch.err
  \/ statusFetch.code # 0 /\ (statusFetch.code \notin 200..299 \/ ~statusFetch.ok)

DsNames ==
  {"modem_downstream_power_dbmv", "modem_downstream_snr_db", "modem_downstream_corrected",
   "modem_downstream_uncorrectable", "modem_downstream_locked"}

UsNames == {"modem_upstream_power_dbmv", "modem_upstream_frequency_hz", "modem_upstream_locked"}

\* The numeric samples of a channel record: metric name, the two element names
\* of the field, and whether the code reads it with int().
DsNumeric ==
  {[name |-> "modem_downstream_power_dbmv", legacy |-> "pow", modern |-> "PLCPower", int |-> FALSE],
   [name |-> "modem_downstream_snr_db", legacy |-> "snr", modern |-> "PlcScAvgMer", int |-> FALSE],
   [name |-> "modem_downstream_corrected", legacy |-> "correctable", modern |-> "ofdmCorrected",
    int |-> TRUE],
   [name |-> "modem_downstream_uncorrectable", legacy |-> "uncorrectable",
    modern |-> "ofdmUncorrectable", int |-> TRUE]}

UsNumeric ==
  {[name |-> "modem_upstream_power_dbmv", legacy |-> "power", modern |-> "repPower1_6", int |-> FALSE],
   [name |-> "modem_upstream_frequency_hz", legacy |-> "freq", modern |-> "centerFreq", int |-> FALSE]}

IsDs(c) == c.fun = DsFuns[1] \/ c.fun = DsFuns[2]
IsUs(c) == c.fun = UsFuns[1] \/ c.fun = UsFuns[2]

Numeric(c) == IF IsDs(c) THEN DsNumeric ELSE UsNumeric
DirNames(c) == IF IsDs(c) THEN DsNames ELSE UsNames
LockName(c) == IF IsDs(c) THEN "modem_downstream_locked" ELSE "modem_upstream_locked"
Labels(c) ==
  IF IsDs(c) THEN DsLabels(parse_downstream(c.el)) ELSE UsLabels(parse_upstream(c.el))

\* The text of a numeric field of the element just processed.
FieldText(c, f) == Or(c.el[f.legacy], c.el[f.modern])
IsNumber(c, f) ==
  Truthy(FieldText(c, f))
    /\ (IF f.int THEN IsInt(FieldText(c, f)) ELSE IsFloat(FieldText(c, f)))
NotNumber(c, f) == Truthy(FieldText(c, f)) /\ ~IsNumber(c, f)
NumberOf(c, f) == IF f.int THEN IntVal(FieldText(c, f)) ELSE FloatVal(FieldText(c, f))

\* The element just processed was the first of its direction to reach the
\* registry: every sample of the direction in it is this element's.
FirstTurn(c) == \A s \in samples \ added : s.name \notin DirNames(c)

\* The lock gauge of the direction was registered before the element just
\* processed.
LockedBefore(c) == \E s \in samples \ added : s.name = LockName(c)

\* An element written with the legacy names only.
LegacyOnly(c) ==
  IF IsDs(c) THEN \A k \in 1..Len(DsFields) : c.el[DsFields[k][3]] = None
  ELSE \A k \in 1..Len(UsFields) : c.el[UsFields[k][3]] = None

\* The samples of one channel element: resolver and loop body on a registry of
\* its own.
DsSamples(e) == DsBody(EmptyRegistry, parse_downstream(e)).reg.samples
UsSamples(e) == UsBody(EmptyRegistry, parse_upstream(e)).reg.samples

\* Samples without the value of their type label.
Untyped(ss) ==
  {[name |-> s.name, channel |-> s.labels.channel, keys |-> DOMAIN s.labels, value |-> s.value] :
     s \in ss}

-----------------------------------------------------------------------------
(* The claims *)

\* C1: a pass whose login leaves no sessionToken cookie in the session, whatever
\* the code of the login response, or whose login POST raises, ends with the
\* 500 'Modem login failed' response and posts nothing to getter.xml.
C1_LoginFailureEndsPass ==
  (pc # "login" /\ ~cookie) =>
     /\ pc = "done"
     /\ result = "login_failed"
     /\ fetched = <<>>
     /\ samples = {}

\* C1's case: the login response had code 200 and set no cookie.
C1_Witness ==
  /\ pc = "done"
  /\ ~loginResp.err /\ loginResp.code = 200 /\ ~cookie
  /\ result = "login_failed"

\* C2: after a successful login, a status fetch that raises (transport error,
\* error code) or answers malformed XML ends the pass with the 500 'Failed to
\* get status' response: no channel functionId is fetched, no sample returned.
C2_StatusFailureEndsPass ==
  StatusFetchFailed =>
     /\ pc = "done"
     /\ result = "status_failed"
     /\ fetched = <<1>>
     /\ Returned = {}

\* C2's case: the status fetch was answered with code 500.
C2_Witness ==
  /\ ~statusFetch.err /\ statusFetch.code = 500
  /\ cookie
  /\ result = "status_failed"

\* C3: a pass that got past login and status ends without a top-level failure,
\* fetches 9, 10, 6, 11 once each in that order, takes no sample from a
\* functionId whose fetch failed, and takes upstream samples from every upstream
\* functionId fetched with at least one channel after both downstream fetches
\* failed.
C3_ChannelFetchesIndependent ==
  (pc = "done" /\ result \notin {"login_failed", "status_failed"}) =>
     /\ result = "ok"
     /\ fetched = <<1, 9, 10, 6, 11>>
     /\ \A f \in DOMAIN outcome : outcome[f] = "failed" => contrib[f] = 0
     /\ (outcome[9] = "failed" /\ outcome[10] = "failed") =>
          \A k \in 1..Len(UsFuns) :
             (outcome[UsFuns[k]] = "ok" /\ elems[UsFuns[k]] >= 1) => contrib[UsFuns[k]] > 0

\* C4: every channel element of a payload that was fetched and parsed leaves a
\* lock sample labelled with its channel in the registry.
C4_LockSampleForEveryChannel ==
  cur.fun # 0 =>
     \E s \in samples : s.name = LockName(cur) /\ s.labels = Labels(cur)

\* C5: a field with two element names resolves to the text of the first of the
\* two that is present in the channel element, also when that text is empty.
C5_FirstPresentCandidate ==
  /\ IsDs(cur) =>
       \A k \in 1..Len(DsFields) :
          LET l == cur.el[DsFields[k][2]]
              m == cur.el[DsFields[k][3]]
          IN  (l # None \/ m # None) =>
                 parse_downstream(cur.el)[DsFields[k][1]] = (IF l # None THEN l ELSE m)
  /\ IsUs(cur) =>
       \A k \in 1..Len(UsFields) :
          LET l == cur.el[UsFields[k][2]]
              m == cur.el[UsFields[k][3]]
          IN  (l # None \/ m # None) =>
                 parse_upstream(cur.el)[UsFields[k][1]] = (IF l # None THEN l ELSE m)

\* C6: when a numeric field of a channel record holds a text that is no number,
\* that field has no sample and every other numeric field of the record that
\* holds a number has its sample, and the record has its lock sample.  Stated of
\* the first record of a direction, on which no earlier registration bears.
C6_OtherFieldsStillPresent ==
  (cur.fun # 0 /\ FirstTurn(cur) /\ \E f \in Numeric(cur) : NotNumber(cur, f)) =>
     /\ \A g \in Numeric(cur) :
          /\ NotNumber(cur, g) => \A s \in samples : s.name # g.name
          /\ IsNumber(cur, g) =>
               [name |-> g.name, labels |-> Labels(cur), value |-> NumberOf(cur, g)] \in samples
     /\ \E s \in samples : s.name = LockName(cur) /\ s.labels = Labels(cur)

\* C7: a numeric channel sample is emitted only for a field whose text is a
\* number, with that number as its value: none for a missing or empty field.
C7_NumericSampleOnlyIfParsed ==
  cur.fun # 0 =>
     \A f \in Numeric(cur) :
        \A s \in added :
           s.name = f.name => IsNumber(cur, f) /\ s.value = NumberOf(cur, f)

\* C8: whatever the cm_system_uptime text of a status document that was fetched
\* and parsed, the pass does not fail on it: a leading token that is a float
\* gives the uptime sample that value; any other text gives no uptime sample,
\* and the pass goes on to the DOCSIS-mode gauge and the channel fetches.
C8_UptimeNeverFailsPass ==
  (fetched = <<1>> /\ StatusParsed) =>
     LET up == status.cm_system_uptime
         isFloat == HasToken(up) /\ IsFloat(FirstToken(up))
     IN  /\ result # "status_failed"
         /\ pc = "ds_fetch"
         /\ "modem_docsis_mode" \in names
         /\ isFloat =>
              [name |-> "modem_system_uptime_seconds", labels |-> <<>>,
               value |-> FloatVal(FirstToken(up))] \in samples
         /\ ~isFloat => "modem_system_uptime_seconds" \notin names

\* C9 as claimed: in both directions a channel element written with the legacy
\* names and the same channel written with the modern names give the same
\* samples: names, label keys, label values, values.
C9_SchemaTransparent ==
  (cur.fun # 0 /\ LegacyOnly(cur)) =>
     IF IsDs(cur) THEN DsSamples(cur.el) = DsSamples(ToModernDs(cur.el))
     ELSE UsSamples(cur.el) = UsSamples(ToModernUs(cur.el))

\* C9 as amended: downstream the two give the same samples; upstream they give
\* the same metric names, label keys, channel label and values, and the type
\* label is SC-QAM for the legacy element and OFDMA for the modern one exactly
\* when it holds the ofdmaLocked element.
C9_SchemaTransparentButType ==
  (cur.fun # 0 /\ LegacyOnly(cur)) =>
     IF IsDs(cur) THEN DsSamples(cur.el) = DsSamples(ToModernDs(cur.el))
     ELSE /\ Untyped(UsSamples(cur.el)) = Untyped(UsSamples(ToModernUs(cur.el)))
          /\ \A s \in UsSamples(cur.el) : s.labels.type = <<"S", "C", "-", "Q", "A", "M">>
          /\ \A s \in UsSamples(ToModernUs(cur.el)) :
                s.labels.type = (IF cur.el.usLocked # None THEN <<"O", "F", "D", "M", "A">>
                                 ELSE <<"S", "C", "-", "Q", "A", "M">>)

\* C9's case: the first upstream element of a pass, written with the legacy
\* names and holding usLocked, left the samples the resolver and the loop body
\* give for it, and the same channel under the modern names gives others.
C9_Witness ==
  /\ IsUs(cur) /\ LegacyOnly(cur) /\ FirstTurn(cur)
  /\ cur.el.usLocked # None
  /\ added = UsSamples(cur.el)
  /\ Cardinality(added) = Cardinality(UsNames)
  /\ UsSamples(ToModernUs(cur.el)) # added

\* C10 as claimed: every metric name is registered once and has one labelled
\* sample, and once the lock gauge of a direction is registered no later
\* channel element of that direction adds a sample of any kind.
C10_NothingAfterLock ==
  /\ \A s, t \in samples : s.name = t.name => s = t
  /\ names = {s.name : s \in samples}
  /\ (cur.fun # 0 /\ LockedBefore(cur)) => added = {}

\* C10 as amended: every metric name is registered once and has one labelled
\* sample, and once the lock gauge of a direction is registered a later channel
\* element of that direction adds no lock sample and no sample of a name
\* registered before it, and it ends the loop of its functionId; it still adds
\* the numeric samples whose names no earlier element registered.
C10_OnlyNewNamesAfterLock ==
  /\ \A s, t \in samples : s.name = t.name => s = t
  /\ names = {s.name : s \in samples}
  /\ (cur.fun # 0 /\ LockedBefore(cur)) =>
       /\ \A s \in added : s.name # LockName(cur) /\ s.name \in DirNames(cur)
       /\ \A s \in added : \A t \in samples \ added : t.name # s.name
       /\ pc \notin {"ds_channel", "us_channel"}
       /\ pending = 0

\* C10's case: the lock gauge was registered by an earlier element, and a later
\* element of the second functionId of the pair added a sample.
C10_Witness ==
  /\ cur.fun = DsFuns[2]
  /\ LockedBefore(cur)
  /\ added # {}
  /\ elems[DsFuns[1]] >= 1

====
